---------------------------- MODULE Spec2Model ----------------------------
(***************************************************************************)
(* Model of markdown_to_html.py: one run of                                *)
(*     MarkdownToHTML(file, theme).render()                                *)
(* Texts, file names and theme names are sequences of one-character        *)
(* strings, so that the regular expression, str.split, str.strip,          *)
(* str.replace and Path.stem are computed character by character.          *)
(***************************************************************************)
EXTENDS Integers, Sequences, FiniteSets

VARIABLES
    pc,        \* "start", "constructed", "done" or "failed"
    err,       \* the exception that ended the run, or "none"
    file,      \* self.file: name of the source file in the document directory
    theme,     \* self.theme: the requested theme
    template,  \* self.template
    css,       \* self.css
    html,      \* self.html: name of the destination file
    markdown,  \* self.markdown
    assets,    \* the asset directory: file name -> text
    disk,      \* the document directory: file name -> text
    disk0,     \* the document directory as it was when the run started
    remote,    \* what the remote endpoint does with the one request of the run
    io         \* the file and network operations of the run, in order

vars == <<pc, err, file, theme, template, css, html, markdown, assets, disk,
          disk0, remote, io>>

-----------------------------------------------------------------------------
(* Bounds of the model *)

\* longest source text, in lines
MaxLines == 5
\* longest template, in pieces
MaxPieces == 3

-----------------------------------------------------------------------------
(* Characters and literals *)

NL == "\n"
None == <<"<None>">>
Whitespace == {" ", "\n", "\t", "\r"}
Delim == <<"-", "-", "-">>
SepCell == <<"-", "-", "-", " ", "|">>
RuleLine == <<"\n", "-", "-", "-", "\n">>
TemplateName == <<"t", "e", "m", "p", "l", "a", "t", "e", ".", "h", "t", "m", "l">>
CssSuffix == <<".", "c", "s", "s">>
HtmlSuffix == <<".", "h", "t", "m", "l">>
TagStyle == <<"{", "%", " ", "S", "T", "Y", "L", "E", " ", "%", "}">>
TagTheme == <<"{", "%", " ", "T", "H", "E", "M", "E", " ", "%", "}">>
TagContent == <<"{", "%", " ", "C", "O", "N", "T", "E", "N", "T", " ", "%", "}">>
StyleOpen == <<"<", "s", "t", "y", "l", "e", ">">>
StyleClose == <<"<", "/", "s", "t", "y", "l", "e", ">">>
DivOpen == <<"<", "d", "i", "v", "\n", " ", " ", " ", " ", " ", " ", " ", " ", " ", " ", " ", " ", "c", "l", "a", "s", "s", "=", "\"", "g", "i", "t", "h", "u", "b", "-", "m", "a", "r", "k", "d", "o", "w", "n", "-", "b", "o", "d", "y", "\"", "\n", " ", " ", " ", " ", " ", " ", " ", " ", " ", " ", " ", " ", "d", "a", "t", "a", "-", "c", "o", "l", "o", "r", "-", "m", "o", "d", "e", "=", "\"">>
DivDark == <<"\"", "\n", " ", " ", " ", " ", " ", " ", " ", " ", " ", " ", " ", " ", "d", "a", "t", "a", "-", "d", "a", "r", "k", "-", "t", "h", "e", "m", "e", "=", "\"">>
DivLight == <<"\"", "\n", " ", " ", " ", " ", " ", " ", " ", " ", " ", " ", " ", " ", "d", "a", "t", "a", "-", "l", "i", "g", "h", "t", "-", "t", "h", "e", "m", "e", "=", "\"">>
DivClose == <<"\"", ">", "\n", " ", " ", " ", " ", " ", " ", " ", " ">>

-----------------------------------------------------------------------------
(* Sequences of characters *)

Min(S) == CHOOSE x \in S : \A y \in S : x <= y
Max(S) == CHOOSE x \in S : \A y \in S : x >= y

From(s, i) == SubSeq(s, i, Len(s))

StartsAt(s, i, t) ==
    /\ i >= 1
    /\ i + Len(t) - 1 <= Len(s)
    /\ SubSeq(s, i, i + Len(t) - 1) = t

Occurs(s, t) == \E i \in 1..Len(s) : StartsAt(s, i, t)

RECURSIVE Concat(_)
Concat(ss) == IF ss = <<>> THEN <<>> ELSE Head(ss) \o Concat(Tail(ss))

\* sep.join(ss)
RECURSIVE Join(_, _)
Join(ss, sep) ==
    IF ss = <<>> THEN <<>>
    ELSE IF Len(ss) = 1 THEN Head(ss)
    ELSE Head(ss) \o sep \o Join(Tail(ss), sep)

\* t * n
RECURSIVE Repeat(_, _)
Repeat(t, n) == IF n <= 0 THEN <<>> ELSE t \o Repeat(t, n - 1)

\* s.split(c), c one character
RECURSIVE Split(_, _)
Split(s, c) ==
    LET I == {i \in 1..Len(s) : s[i] = c}
    IN  IF I = {} THEN <<s>>
        ELSE <<SubSeq(s, 1, Min(I) - 1)>> \o Split(From(s, Min(I) + 1), c)

\* s.strip()
Strip(s) ==
    LET N == {i \in 1..Len(s) : s[i] \notin Whitespace}
    IN  IF N = {} THEN <<>> ELSE SubSeq(s, Min(N), Max(N))

\* s.replace(old, new, 1): the first occurrence only
ReplaceFirstOnly(s, old, new) ==
    LET I == {i \in 1..Len(s) : StartsAt(s, i, old)}
    IN  IF I = {} THEN s
        ELSE SubSeq(s, 1, Min(I) - 1) \o new \o From(s, Min(I) + Len(old))

\* s.replace(old, new): every occurrence, leftmost first, not overlapping
RECURSIVE Replace(_, _, _)
Replace(s, old, new) ==
    LET I == {i \in 1..Len(s) : StartsAt(s, i, old)}
    IN  IF I = {} THEN s
        ELSE SubSeq(s, 1, Min(I) - 1) \o new
                 \o Replace(From(s, Min(I) + Len(old)), old, new)

\* PurePath.stem of a file name
Stem(name) ==
    LET D == {i \in 1..Len(name) : name[i] = "."}
    IN  IF D = {} THEN name
        ELSE IF 1 < Max(D) /\ Max(D) < Len(name)
             THEN SubSeq(name, 1, Max(D) - 1)
             ELSE name

-----------------------------------------------------------------------------
(* parse_markdown *)

\* metadata_pattern = ^---[\s\S]+?--- : the index of the last character of
\* the match, 0 when the pattern does not match
MatchEnd(s) ==
    IF ~StartsAt(s, 1, Delim) THEN 0
    ELSE LET J == {j \in 5..Len(s) : StartsAt(s, j, Delim)}
         IN  IF J = {} THEN 0 ELSE Min(J) + 2

\* re.findall(metadata_pattern, markdown)
Findall(s) == IF MatchEnd(s) = 0 THEN <<>> ELSE <<SubSeq(s, 1, MatchEnd(s))>>

\* re.sub(metadata_pattern, "", markdown)
Sub(s) == From(s, MatchEnd(s) + 1)

\* key.split(":")[0].strip() and key.split(":")[-1].strip()
KeyOf(line) == Strip(Split(line, ":")[1])
ValueOf(line) == LET p == Split(line, ":") IN Strip(p[Len(p)])

\* a mapping that moves a key that is set again to the end
DictPutMoveToEnd(d, k, v) ==
    Append(SelectSeq(d, LAMBDA item : item[1] # k), <<k, v>>)

\* d[k] = v on a dict, kept as the sequence of its items in iteration order
DictPut(d, k, v) ==
    IF \E i \in 1..Len(d) : d[i][1] = k
    THEN [i \in 1..Len(d) |-> IF d[i][1] = k THEN <<k, v>> ELSE d[i]]
    ELSE Append(d, <<k, v>>)

\* the dict comprehension over the lines of the matched text
RECURSIVE Metadata(_)
Metadata(lines) ==
    IF lines = <<>> THEN <<>>
    ELSE LET l == lines[Len(lines)]
             d == Metadata(SubSeq(lines, 1, Len(lines) - 1))
         IN  IF l = Delim THEN d ELSE DictPut(d, KeyOf(l), ValueOf(l))

Keys(d) == [i \in 1..Len(d) |-> d[i][1]]
Values(d) == [i \in 1..Len(d) |-> d[i][2]]

\* the table with the separator row put before the header row
TableSeparatorFirst(d, rest) ==
    Repeat(SepCell, Len(d)) \o <<NL>> \o Join(Keys(d), <<"|">>) \o <<NL>>
        \o Join(Values(d), <<"|">>) \o RuleLine \o rest

\* f"{headers}\n{sep}\n{values}\n---\n{markdown}"
Table(d, rest) ==
    Join(Keys(d), <<"|">>) \o <<NL>> \o Repeat(SepCell, Len(d)) \o <<NL>>
        \o Join(Values(d), <<"|">>) \o RuleLine \o rest

\* parse_markdown on the text of the source file: the error it raises and
\* the value it leaves in self.markdown
ParseMarkdown(text) ==
    LET yaml == Findall(text)
        rest == Sub(text)
    IN  IF Len(yaml) > 0
        THEN LET d == Metadata(Split(yaml[1], NL))
             IN  IF d = <<>>
                 THEN [err |-> "ValueError: max() arg is an empty sequence",
                       markdown |-> None]
                 ELSE [err |-> "none", markdown |-> Table(d, rest)]
        ELSE [err |-> "none", markdown |-> rest]

-----------------------------------------------------------------------------
(* render *)

\* the values of update_tags
StyleValue(c) == StyleOpen \o c \o StyleClose
ThemeValue(t) == DivOpen \o t \o DivDark \o t \o DivLight \o t \o DivClose

\* for key, value in update_tags.items(): template = template.replace(...)
Substitute(tpl, c, t, h) ==
    Replace(Replace(Replace(tpl, TagStyle, StyleValue(c)),
                    TagTheme, ThemeValue(t)),
            TagContent, h)

-----------------------------------------------------------------------------
(* The file systems and the operations on them *)

\* MarkdownToHTML.themes: the stems of the files of the asset directory other
\* than the template, listed when the class is defined, before any run
Themes == {Stem(n) : n \in DOMAIN assets \ {TemplateName}}

\* one operation on a file or on the network: "read" and "write" are open()
\* for reading and for writing, "stat" is Path.is_file(), "post" is the request
Event(op, where, name) == <<op, where, name>>

WriteFile(d, name, text) ==
    [n \in DOMAIN d \cup {name} |-> IF n = name THEN text ELSE d[n]]

\* __init__ with the theme validated after the source file has been looked up
ConstructValidatesLate ==
    /\ pc = "start"
    /\ template' = assets[TemplateName]
    /\ UNCHANGED <<file, theme, markdown, assets, disk, disk0, remote>>
    /\ LET readTemplate == Event("read", "assets", TemplateName)
           isFile == Event("stat", "doc", file)
           readCss == Event("read", "assets", theme \o CssSuffix)
       IN  IF file \notin DOMAIN disk
           THEN /\ err' = "FileNotFoundError"
                /\ pc' = "failed"
                /\ io' = io \o <<readTemplate, isFile>>
                /\ UNCHANGED <<css, html>>
           ELSE IF theme \notin Themes
           THEN /\ err' = "ValueError: Theme not in list of valid options"
                /\ pc' = "failed"
                /\ io' = io \o <<readTemplate, isFile>>
                /\ UNCHANGED <<css, html>>
           ELSE /\ css' = assets[theme \o CssSuffix]
                /\ html' = Stem(file) \o HtmlSuffix
                /\ pc' = "constructed"
                /\ io' = io \o <<readTemplate, isFile, readCss>>
                /\ UNCHANGED err

\* MarkdownToHTML.__init__: the template is read, then the theme is checked,
\* then the source file is looked up, then the style sheet is read
Construct ==
    /\ pc = "start"
    /\ template' = assets[TemplateName]
    /\ UNCHANGED <<file, theme, markdown, assets, disk, disk0, remote>>
    /\ LET readTemplate == Event("read", "assets", TemplateName)
           isFile == Event("stat", "doc", file)
           readCss == Event("read", "assets", theme \o CssSuffix)
       IN  IF theme \notin Themes
           THEN /\ err' = "ValueError: Theme not in list of valid options"
                /\ pc' = "failed"
                /\ io' = io \o <<readTemplate>>
                /\ UNCHANGED <<css, html>>
           ELSE IF file \notin DOMAIN disk
           THEN /\ err' = "FileNotFoundError"
                /\ pc' = "failed"
                /\ io' = io \o <<readTemplate, isFile>>
                /\ UNCHANGED <<css, html>>
           ELSE /\ css' = assets[theme \o CssSuffix]
                /\ html' = Stem(file) \o HtmlSuffix
                /\ pc' = "constructed"
                /\ io' = io \o <<readTemplate, isFile, readCss>>
                /\ UNCHANGED err

\* render with the destination opened for writing before the request is sent
RenderOpensFirst ==
    /\ pc = "constructed"
    /\ UNCHANGED <<file, theme, css, html, assets, disk0, remote>>
    /\ LET readSource == Event("read", "doc", file)
           post == Event("post", "net", <<>>)
           write == Event("write", "doc", html)
           parsed == ParseMarkdown(disk[file])
       IN  IF parsed.err # "none"
           THEN /\ err' = parsed.err
                /\ pc' = "failed"
                /\ io' = io \o <<readSource>>
                /\ UNCHANGED <<markdown, template, disk>>
           ELSE IF remote.status # "ok"
           THEN /\ markdown' = parsed.markdown
                /\ err' = remote.status
                /\ pc' = "failed"
                /\ io' = io \o <<readSource, write, post>>
                /\ disk' = WriteFile(disk, html, <<>>)
                /\ UNCHANGED template
           ELSE /\ markdown' = parsed.markdown
                /\ template' = Substitute(template, css, theme, remote.text)
                /\ disk' = WriteFile(disk, html, template')
                /\ pc' = "done"
                /\ io' = io \o <<readSource, write, post>>
                /\ UNCHANGED err

\* MarkdownToHTML.render, with parse_markdown and send_request: the source is
\* read and parsed, the request is sent, and only when it has returned are the
\* placeholders replaced and the destination written
Render ==
    /\ pc = "constructed"
    /\ UNCHANGED <<file, theme, css, html, assets, disk0, remote>>
    /\ LET readSource == Event("read", "doc", file)
           post == Event("post", "net", <<>>)
           write == Event("write", "doc", html)
           parsed == ParseMarkdown(disk[file])
       IN  IF parsed.err # "none"
           THEN /\ err' = parsed.err
                /\ pc' = "failed"
                /\ io' = io \o <<readSource>>
                /\ UNCHANGED <<markdown, template, disk>>
           ELSE IF remote.status # "ok"
           THEN /\ markdown' = parsed.markdown
                /\ err' = remote.status
                /\ pc' = "failed"
                /\ io' = io \o <<readSource, post>>
                /\ UNCHANGED <<template, disk>>
           ELSE /\ markdown' = parsed.markdown
                /\ template' = Substitute(template, css, theme, remote.text)
                /\ disk' = WriteFile(disk, html, template')
                /\ pc' = "done"
                /\ io' = io \o <<readSource, post, write>>
                /\ UNCHANGED err

Next == Construct \/ Render

-----------------------------------------------------------------------------
(* The inputs of a run *)

Dark == <<"d", "a", "r", "k">>
Light == <<"l", "i", "g", "h", "t">>
Blue == <<"b", "l", "u", "e">>
OtherName == <<"b", ".", "t", "x", "t">>

\* the asset directory: the template and one style sheet per theme
AssetDir(tpl, sheet) ==
    [n \in {TemplateName, Dark \o CssSuffix, Light \o CssSuffix} |->
        IF n = TemplateName THEN tpl
        ELSE IF n = Dark \o CssSuffix THEN sheet
        ELSE <<"w">>]

\* the document directory: the source file if it exists, an earlier output
\* file if there is one, and a file the run has nothing to do with
DocDir(name, exists, text, old) ==
    [n \in {OtherName}
            \cup (IF exists THEN {name} ELSE {})
            \cup (IF old # None THEN {Stem(name) \o HtmlSuffix} ELSE {}) |->
        IF n = name /\ exists THEN text
        ELSE IF n = OtherName THEN <<"o">>
        ELSE old]

Ok(text) == [status |-> "ok", text |-> text]
Failure(kind) == [status |-> kind, text |-> <<>>]

InitWith(names, texts, sources, wanted, templates, sheets, remotes, olds) ==
    \E n \in names, x \in texts, e \in sources, w \in wanted,
       tpl \in templates, sheet \in sheets, r \in remotes, old \in olds :
        /\ pc = "start"
        /\ err = "none"
        /\ file = n
        /\ theme = w
        /\ template = None
        /\ css = None
        /\ html = None
        /\ markdown = None
        /\ assets = AssetDir(tpl, sheet)
        /\ disk = DocDir(n, e, x, old)
        /\ disk0 = disk
        /\ remote = r
        /\ io = <<>>

\* every sequence of at most n elements of S
UpTo(S, n) == UNION {[1..k -> S] : k \in 0..n}

BasicTemplate ==
    <<"<">> \o TagStyle \o <<"|">> \o TagTheme \o <<"|">> \o TagContent \o <<">">>
Hello == <<"<", "h", "1", ">", "H", "e", "l", "l", "o", "<", "/", "h", "1", ">">>

(* Runs: file names, themes, missing files, earlier outputs, remote failures *)
RunNames ==
    { <<"a", ".", "m", "d">>, <<"a", ".", "h", "t", "m", "l">>,
      <<"n", "o", "t", "e", "s">>, <<"a", ".", "b", ".", "m", "d">> }
RunTexts ==
    { <<>>, <<"#", " ", "H">>,
      Delim \o <<NL, "a", ":", "b", NL>> \o Delim \o <<NL, "x">>,
      Delim \o <<NL>> \o Delim \o <<NL, "x">> }
RunRemotes == {Ok(Hello), Failure("ConnectionError"), Failure("HTTPError")}

Init ==
    InitWith(RunNames, RunTexts, BOOLEAN, {Dark, Light, Blue}, {BasicTemplate},
             {<<"c">>}, RunRemotes, {None, <<"o", "l", "d">>})

Spec == Init /\ [][Next]_vars

(* Source texts: every text of at most MaxLines lines drawn from LineSet *)
LineSet ==
    { Delim,
      <<"a", ":", "b">>,
      <<"t", ":", "1", ":", "3">>,
      <<"a", ":", " ", "d">>,
      <<"c", ":", "x", "-", "-", "-", "y">>,
      <<"-", "-", "-", "a", ":", "b">>,
      <<"x">> }
Texts == {Join(ls, <<NL>>) : ls \in UpTo(LineSet, MaxLines)}

InitParse ==
    InitWith({<<"a", ".", "m", "d">>}, Texts, {TRUE}, {Dark}, {BasicTemplate},
             {<<"c">>}, {Ok(Hello)}, {None})

SpecParse == InitParse /\ [][Next]_vars

(* Templates: every concatenation of at most MaxPieces pieces, with style
   sheets and rendered fragments that may themselves spell a placeholder *)
Pieces ==
    { TagStyle, TagTheme, TagContent, <<"x">>, <<"{", "%", " ">>,
      <<"S", "T", "Y", "L", "E", " ", "%", "}">> }
Templates == {Concat(ps) : ps \in UpTo(Pieces, MaxPieces)}
Sheets == {<<"c">>, TagContent, TagTheme}
Fragments == {Hello, <<>>, TagStyle, <<"{", "%", " ">>}

InitTags ==
    InitWith({<<"a", ".", "m", "d">>}, {<<"#", " ", "H">>}, {TRUE}, {Dark},
             Templates, Sheets, {Ok(h) : h \in Fragments}, {None})

SpecTags == InitTags /\ [][Next]_vars

-----------------------------------------------------------------------------
(* What the properties speak of *)

ThemeError == "ValueError: Theme not in list of valid options"
EmptyError == "ValueError: max() arg is an empty sequence"
RequestErrors == {"ConnectionError", "HTTPError"}

\* the text of the source file
Source == disk0[file]

\* parse_markdown has run in this state
ParseRan == pc = "done" \/ (pc = "failed" /\ err \in RequestErrors \cup {EmptyError})

\* parse_markdown has run and has set the processed text
Processed == markdown # None

Lines(text) == Split(text, NL)

\* the elements of s at the indices of I, in order
Pick(s, I) ==
    [i \in 1..Cardinality(I) |->
        s[CHOOSE x \in I : Cardinality({y \in I : y < x}) = i - 1]]

\* A front-matter block as the specification describes it, by lines: the
\* first line is ---, and the block is closed by the first later line that
\* is ---.  ClosingLine is the number of that line, 0 when there is none.
ClosingLine(text) ==
    LET ls == Lines(text)
        K == {k \in 2..Len(ls) : ls[k] = Delim}
    IN  IF ls[1] # Delim \/ K = {} THEN 0 ELSE Min(K)

ContentLines(text) == SubSeq(Lines(text), 2, ClosingLine(text) - 1)

\* the text that follows the closing line of the block
AfterBlock(text) ==
    From(text, Len(Join(SubSeq(Lines(text), 1, ClosingLine(text)), <<NL>>)) + 1)

\* the keys of the lines, each once: at its first or at its last occurrence
FirstKeys(ls) ==
    Pick([i \in 1..Len(ls) |-> KeyOf(ls[i])],
         {i \in 1..Len(ls) : \A j \in 1..(i - 1) : KeyOf(ls[j]) # KeyOf(ls[i])})
LastKeys(ls) ==
    Pick([i \in 1..Len(ls) |-> KeyOf(ls[i])],
         {i \in 1..Len(ls) : \A j \in (i + 1)..Len(ls) : KeyOf(ls[j]) # KeyOf(ls[i])})

\* the value of the last of the lines that has the key
LastValue(ls, k) == ValueOf(ls[Max({i \in 1..Len(ls) : KeyOf(ls[i]) = k})])
LastValues(ls, ks) == [i \in 1..Len(ks) |-> LastValue(ls, ks[i])]

HasDuplicateKey(ls) ==
    \E i, j \in 1..Len(ls) : i < j /\ KeyOf(ls[i]) = KeyOf(ls[j])

\* the lines of the text the pattern matched, the delimiter lines left out
NotDelim(l) == l # Delim
MatchedLines(text) == SelectSeq(Lines(SubSeq(text, 1, MatchEnd(text))), NotDelim)

\* the processed text after its first four lines (the table and the rule)
BodyOf(md) == Join(SubSeq(Lines(md), 5, Len(Lines(md))), <<NL>>)

IsEvent(e, ops) == e[1] \in ops
EventsOf(ops) == SelectSeq(io, LAMBDA e : IsEvent(e, ops))

-----------------------------------------------------------------------------
(* Front-matter extraction: SpecParse *)

\* the block of the source, by lines, holds one or more key: value lines
IsKeyValueBlock(text) ==
    /\ ClosingLine(text) >= 3
    /\ \A i \in 1..Len(ContentLines(text)) :
           \E c \in 1..Len(ContentLines(text)[i]) : ContentLines(text)[i][c] = ":"

\* the table of the lines ls followed by the rule line and the text rest
TableOfLines(ls, rest) ==
    Join(FirstKeys(ls), <<"|">>) \o <<NL>>
        \o Repeat(SepCell, Len(FirstKeys(ls))) \o <<NL>>
        \o Join(LastValues(ls, FirstKeys(ls)), <<"|">>) \o RuleLine \o rest

\* C1: a source that starts with a --- line, one or more key: value lines and
\* a closing --- line is processed to exactly the table of those lines (keys
\* before the first colon, values after the last colon, one separator cell
\* per distinct key), the rule line, and the text that follows the block.
C1_BlockBecomesTable ==
    (ParseRan /\ IsKeyValueBlock(Source))
        => markdown = TableOfLines(ContentLines(Source), AfterBlock(Source))

\* C2: a source that does not begin with a complete block (a first line that
\* is exactly ---, content, and a later line that is exactly ---) is passed
\* through unchanged and no error is raised.
C2_IdentityWithoutBlock ==
    (ParseRan /\ ClosingLine(Source) = 0) => markdown = Source

\* C5 as stated: a key that appears on two lines keeps the value of the
\* later line, and its column is at the position of its last occurrence.
C5_LastOccurrencePosition ==
    (Processed /\ MatchEnd(Source) > 0 /\ HasDuplicateKey(MatchedLines(Source)))
        => /\ Lines(markdown)[1] = Join(LastKeys(MatchedLines(Source)), <<"|">>)
           /\ Lines(markdown)[3] =
                  Join(LastValues(MatchedLines(Source), LastKeys(MatchedLines(Source))),
                       <<"|">>)

\* C5 as amended: a key that appears on two lines of the matched text keeps
\* the value of the later line, and its column in the header row and in the
\* value row is at the position of its first occurrence.
C5_FirstOccurrencePosition ==
    (Processed /\ MatchEnd(Source) > 0 /\ HasDuplicateKey(MatchedLines(Source)))
        => /\ Lines(markdown)[1] = Join(FirstKeys(MatchedLines(Source)), <<"|">>)
           /\ Lines(markdown)[3] =
                  Join(LastValues(MatchedLines(Source), FirstKeys(MatchedLines(Source))),
                       <<"|">>)

\* a processed source in which a key is repeated after another key
C5_Witness ==
    /\ Processed
    /\ MatchEnd(Source) > 0
    /\ HasDuplicateKey(MatchedLines(Source))
    /\ FirstKeys(MatchedLines(Source)) # LastKeys(MatchedLines(Source))
    /\ \E i \in 1..Len(MatchedLines(Source)) :
           ValueOf(MatchedLines(Source)[i])
               # LastValue(MatchedLines(Source), KeyOf(MatchedLines(Source)[i]))

\* C6: a source whose block is empty (a --- line immediately followed by a
\* --- line) is processed without error to the text minus the two delimiter
\* lines, with no table.
C6_EmptyBlockRemoved ==
    (ParseRan /\ ClosingLine(Source) = 2)
        => markdown = AfterBlock(Source)

\* the second pass of parse_markdown over the processed text changes nothing
SecondPassUnchanged ==
    ParseMarkdown(markdown) = [err |-> "none", markdown |-> markdown]

FirstKeyHyphens(text) ==
    /\ MatchEnd(text) > 0
    /\ MatchedLines(text) # <<>>
    /\ StartsAt(KeyOf(MatchedLines(text)[1]), 1, Delim)

C9_WholeBlockRemoved ==
    (Processed /\ ClosingLine(Source) >= 3)
        => BodyOf(markdown) = AfterBlock(Source)

-----------------------------------------------------------------------------
(* Runs: Spec *)

\* C3: a run that ends in an error has not opened the destination file for
\* writing and has left the document directory as it was; the destination is
\* written only after the request has returned successfully.
C3_AllOrNothing ==
    /\ pc = "failed" => (EventsOf({"write"}) = <<>> /\ disk = disk0)
    /\ \A i \in 1..Len(io) :
           io[i][1] = "write"
               => /\ remote.status = "ok"
                  /\ \E j \in 1..(i - 1) : io[j][1] = "post"
                  /\ io[i][3] = html

\* a request has failed while an earlier output file was on disk
C3_Witness ==
    /\ pc = "failed"
    /\ err \in RequestErrors
    /\ html \in DOMAIN disk
    /\ html # file

\* C4 as stated: an unknown theme is rejected before any file is read or
\* written and before any network request.
C4_ThemeErrorBeforeAnyIO ==
    err = ThemeError => EventsOf({"read", "write", "post"}) = <<>>

\* C4 as amended: an unknown theme is rejected after the template file has
\* been read and before anything else: no style sheet, source or output file
\* is read or written, and no network request is made.
C4_ThemeErrorAfterTemplateRead ==
    err = ThemeError
        => /\ io = <<Event("read", "assets", TemplateName)>>
           /\ disk = disk0

\* a run has been rejected for its theme
C4_Witness == pc = "failed" /\ err = ThemeError /\ theme \notin Themes

\* C8: the run never changes the source file, whatever its name.
C8_SourceNeverMutated ==
    file \in DOMAIN disk0 => (file \in DOMAIN disk /\ disk[file] = disk0[file])

-----------------------------------------------------------------------------
(* Template substitution: SpecTags *)

\* the three replacements of render made in the order <<first, second, third>>
Value(tag) ==
    IF tag = TagStyle THEN StyleValue(css)
    ELSE IF tag = TagTheme THEN ThemeValue(theme)
    ELSE remote.text
InOrder(tpl, o) ==
    Replace(Replace(Replace(tpl, o[1], Value(o[1])), o[2], Value(o[2])),
            o[3], Value(o[3]))
Orders ==
    {o \in [1..3 -> {TagStyle, TagTheme, TagContent}] :
        \A i, j \in 1..3 : i # j => o[i] # o[j]}

\* every placeholder of tpl replaced by its value in one pass from left to
\* right, the values never scanned
RECURSIVE Simultaneous(_)
Simultaneous(tpl) ==
    IF tpl = <<>> THEN <<>>
    ELSE IF \E tag \in {TagStyle, TagTheme, TagContent} : StartsAt(tpl, 1, tag)
    THEN LET tag == CHOOSE t \in {TagStyle, TagTheme, TagContent} : StartsAt(tpl, 1, t)
         IN  Value(tag) \o Simultaneous(From(tpl, Len(tag) + 1))
    ELSE <<Head(tpl)>> \o Simultaneous(Tail(tpl))

HasPlaceholder(text) ==
    \E tag \in {TagStyle, TagTheme, TagContent} : Occurs(text, tag)

=============================================================================
